---- MODULE Spec2Model ----
(***************************************************************************)
(* Julia-set drawing (fractals.py): escape-time classification of the      *)
(* pixels of an image, rendering of the classification grid as a plain     *)
(* PPM file, and the batch pipeline over a list of parameters.             *)
(*                                                                         *)
(* The program computes with three kinds of numbers: Python ints, Python   *)
(* floats (IEEE-754 binary64, round-half-even) and decimal.Decimal under   *)
(* the default context (28 significant digits, ROUND_HALF_EVEN).  TLC      *)
(* integers are 32 bits wide, so the first part of the module is an        *)
(* arbitrary-size natural number arithmetic on sequences of limbs, on top  *)
(* of which floats and Decimals are modelled bit for bit / digit for       *)
(* digit.                                                                  *)
(***************************************************************************)
EXTENDS Integers, Sequences, FiniteSets

(***************************************************************************)
(* Arbitrary-size naturals: a sequence of limbs, least significant first,  *)
(* in base R.B = R.b ^ R.k, without a most significant zero limb; zero is  *)
(* the empty sequence.  Intermediate values are handed from one operator   *)
(* to the next as arguments, each being used by the one operator that      *)
(* receives it.                                                            *)
(***************************************************************************)
Bin == [b |-> 2, k |-> 12, B |-> 4096,
        pow |-> <<1, 2, 4, 8, 16, 32, 64, 128, 256, 512, 1024, 2048>>]
Dec == [b |-> 10, k |-> 4, B |-> 10000, pow |-> <<1, 10, 100, 1000>>]

Max(x, y) == IF x >= y THEN x ELSE y
Min(x, y) == IF x <= y THEN x ELSE y
Abs(x) == IF x >= 0 THEN x ELSE 0 - x
Sign(x) == IF x >= 0 THEN 1 ELSE 0 - 1
SetMax(S) == CHOOSE m \in S : \A j \in S : j <= m
SetMin(S) == CHOOSE m \in S : \A j \in S : j >= m

Limb(a, i) == IF i >= 1 /\ i <= Len(a) THEN a[i] ELSE 0

\* a sequence given as a function on 1..n, as an explicit tuple
Tuple(f) == f \o <<>>

\* e, with v evaluated first: TLC suspends the evaluation of definitions and
\* arguments until they are used, and a long chain of suspended evaluations
\* exhausts its stack when it is finally resumed
After(v, e) == IF v = v THEN e ELSE e

TrimTo(a, nz) == IF nz = {} THEN <<>> ELSE SubSeq(a, 1, SetMax(nz))
Trim(a) == TrimTo(a, {i \in 1..Len(a) : a[i] # 0})

\* the limbs of the number sum raw[i] * B^(i-1), for 0 <= raw[i] < 2^31:
\* two passes spread every entry over the next limbs, which leaves entries
\* of at most B + 1, and the last pass adds the carries (a carry enters limb
\* i when a lower limb overflows and all limbs between are B - 1)
Spread(raw, B, n) ==
  Tuple([i \in 1..n |-> (Limb(raw, i) % B) + ((Limb(raw, i - 1) \div B) % B)
                        + (Limb(raw, i - 2) \div (B * B))])

CarryIn(s, i, B) ==
  \E j \in 1..(i - 1) : s[j] >= B /\ \A l \in (j + 1)..(i - 1) : s[l] = B - 1

Ripple(s, B) ==
  After(s, Trim(Tuple([i \in 1..Len(s) |-> (s[i] + (IF CarryIn(s, i, B) THEN 1 ELSE 0)) % B])))

Carry(raw, R) ==
  After(raw, Ripple(Spread(Spread(raw, R.B, Len(raw) + 3), R.B, Len(raw) + 3), R.B))

NatToBig(n, R) == Carry(<<n>>, R)

\* the value of a number of at most three limbs
BigToNat(a, R) == Limb(a, 1) + R.B * Limb(a, 2) + R.B * R.B * Limb(a, 3)

BAdd(a, b, R) ==
  Carry(Tuple([i \in 1..Max(Len(a), Len(b)) |-> Limb(a, i) + Limb(b, i)]), R)

\* a - b, for a >= b (a borrow enters limb i when a lower limb is negative
\* and all limbs between are zero)
BorrowIn(t, i) ==
  \E j \in 1..(i - 1) : t[j] < 0 /\ \A l \in (j + 1)..(i - 1) : t[l] = 0

Settle(t, B) ==
  After(t, Trim(Tuple([i \in 1..Len(t) |-> (t[i] - (IF BorrowIn(t, i) THEN 1 ELSE 0)) % B])))

BSub(a, b, R) == Settle(Tuple([i \in 1..Len(a) |-> a[i] - Limb(b, i)]), R.B)

CmpAt(a, b, top) == IF a[top] > b[top] THEN 1 ELSE 0 - 1
CmpIn(a, b, diff) == IF diff = {} THEN 0 ELSE CmpAt(a, b, SetMax(diff))
BCmp(a, b) ==
  IF Len(a) > Len(b) THEN 1
  ELSE IF Len(a) < Len(b) THEN 0 - 1
  ELSE CmpIn(a, b, {i \in 1..Len(a) : a[i] # b[i]})

\* a * n for a one-limb factor 0 <= n <= R.B
BMulSmall(a, n, R) == Carry(Tuple([i \in 1..Len(a) |-> a[i] * n]), R)

RECURSIVE ConvSum(_, _, _, _)
ConvSum(a, b, n, i) ==
  IF i > Len(a) \/ i > n THEN 0
  ELSE a[i] * Limb(b, n - i + 1) + ConvSum(a, b, n, i + 1)

\* a * b, the shorter factor first (at most 21 limbs in base 10^4)
BMulOrdered(a, b, R) ==
  Carry(Tuple([n \in 1..(Len(a) + Len(b) - 1) |-> ConvSum(a, b, n, Max(1, n - Len(b) + 1))]), R)

BMul(a, b, R) ==
  IF a = <<>> \/ b = <<>> THEN <<>>
  ELSE BMulOrdered(IF Len(a) <= Len(b) THEN a ELSE b, IF Len(a) <= Len(b) THEN b ELSE a, R)

\* quotient limbs i..Len(a) and the remainder of the limbs i..Len(a) by n
DivLimb(up, limb, n, B) ==
  After(up, [q |-> <<(up.r * B + limb) \div n>> \o up.q, r |-> (up.r * B + limb) % n])

RECURSIVE DivFrom(_, _, _, _)
DivFrom(a, n, i, B) ==
  IF i > Len(a) THEN [q |-> <<>>, r |-> 0]
  ELSE DivLimb(DivFrom(a, n, i + 1, B), a[i], n, B)

\* quotient and remainder of a by a one-limb divisor 1 <= n <= R.B
DivTrim(d) == [q |-> Trim(d.q), r |-> d.r]
BDivSmall(a, n, R) == DivTrim(DivFrom(a, n, 1, R.B))

ShiftLimbs(a, n) == IF a = <<>> THEN a ELSE Tuple([i \in 1..n |-> 0]) \o a

\* b^n, a * b^n and floor(a / b^n), b the radix of the base
BPow(n, R) == ShiftLimbs(<<R.pow[(n % R.k) + 1]>>, n \div R.k)
BMulPow(a, n, R) == ShiftLimbs(BMulSmall(a, R.pow[(n % R.k) + 1], R), n \div R.k)
DivDigits(x, m, B) ==
  Trim(Tuple([i \in 1..Len(x) |-> (x[i] \div m) + (Limb(x, i + 1) % m) * (B \div m)]))
BDivPow(a, n, R) ==
  DivDigits(SubSeq(a, (n \div R.k) + 1, Len(a)), R.pow[(n % R.k) + 1], R.B)

\* number of radix-b digits (bits, decimal digits) of a
NDigits(a, R) ==
  IF a = <<>> THEN 0
  ELSE R.k * (Len(a) - 1) + Cardinality({j \in 1..R.k : R.pow[j] <= a[Len(a)]})

\* number of radix-b zero digits at the low end of a # 0
LowZerosFrom(a, first, R) ==
  R.k * (first - 1) + Cardinality({j \in 2..R.k : a[first] % R.pow[j] = 0})
LowZeros(a, R) == LowZerosFrom(a, SetMin({i \in 1..Len(a) : a[i] # 0}), R)

IsOdd(a) == Limb(a, 1) % 2 = 1

\* (a + eps) / b^n rounded to the nearest integer, ties to even; sticky says
\* that eps > 0 (the exact value lies strictly between a and a + 1).  q is
\* the quotient and c compares twice the remainder with b^n.
RoundUp(q, c, sticky, R) ==
  IF c > 0 \/ (c = 0 /\ (sticky \/ IsOdd(q))) THEN BAdd(q, <<1>>, R) ELSE q

RoundQuotient(a, n, sticky, q, R) ==
  After(q, RoundUp(q, BCmp(BMulSmall(BSub(a, BMulPow(q, n, R), R), 2, R), BPow(n, R)),
                   sticky, R))

RoundHalfEven(a, n, sticky, R) == RoundQuotient(a, n, sticky, BDivPow(a, n, R), R)

\* floor of the square root by the schoolbook method, one limb of the root
\* per step and one radix-b digit of that limb per inner step; returns the
\* root and the remainder
RECURSIVE RootDigit(_, _, _, _, _)
RootDigitNext(twoP, rem, acc, lev, n, R) ==
  After(n, RootDigit(twoP, rem, acc + n * R.pow[lev], lev - 1, R))

\* the largest d = acc + (digits below lev) with (twoP * B + d) * d <= rem
RootDigit(twoP, rem, acc, lev, R) ==
  IF lev < 1 THEN acc
  ELSE RootDigitNext(twoP, rem, acc, lev,
         Cardinality({n \in 1..(R.b - 1) :
           BCmp(BMulSmall(Trim(<<acc + n * R.pow[lev]>> \o twoP), acc + n * R.pow[lev], R),
                rem) <= 0}), R)

RootStepDigit(rem1, twoP, d, st, R) ==
  After(d, [root |-> Trim(<<d>> \o st.root),
            rem |-> BSub(rem1, BMulSmall(Trim(<<d>> \o twoP), d, R), R)])

RootStepWith(rem1, twoP, st, R) ==
  After(rem1, After(twoP,
    RootStepDigit(rem1, twoP, RootDigit(twoP, rem1, 0, R.k, R), st, R)))

RootStep(a, i, st, R) ==
  After(st, RootStepWith(Trim(<<a[i], a[i + 1]>> \o st.rem), BMulSmall(st.root, 2, R), st, R))

RECURSIVE RootUpTo(_, _, _)
RootUpTo(a, i, R) ==
  IF i > Len(a) THEN [root |-> <<>>, rem |-> <<>>]
  ELSE RootStep(a, i, RootUpTo(a, i + 2, R), R)

RootOf(st) == [root |-> st.root, exact |-> st.rem = <<>>]
ISqrt(a, R) == RootOf(RootUpTo(IF Len(a) % 2 = 1 THEN Append(a, 0) ELSE a, 1, R))

(***************************************************************************)
(* Python floats: IEEE-754 binary64 with round-half-even.  A float is      *)
(* [s, m, e] with value s * m * 2^e, where m has exactly 53 bits (zero is  *)
(* FZero).  The values the model computes stay far inside the normal       *)
(* range, so overflow, subnormals and the sign of zero are not modelled.   *)
(***************************************************************************)
FloatBits == 53

FZero == [s |-> 1, m |-> <<>>, e |-> 0]

\* the rounded significand q, renormalised when rounding carried into a
\* 54th bit
FNormal(s, q, E) ==
  After(q, IF NDigits(q, Bin) > FloatBits
           THEN [s |-> s, m |-> BDivPow(q, 1, Bin), e |-> E + 1]
           ELSE [s |-> s, m |-> q, e |-> E])

FRoundBits(s, M, E, sticky, nb) ==
  IF nb <= FloatBits
  THEN [s |-> s, m |-> BMulPow(M, FloatBits - nb, Bin), e |-> E - (FloatBits - nb)]
  ELSE FNormal(s, RoundHalfEven(M, nb - FloatBits, sticky, Bin), E + (nb - FloatBits))

\* the float nearest to s * (M + eps) * 2^E (sticky: eps > 0)
FRound(s, M, E, sticky) ==
  IF M = <<>> THEN FZero ELSE After(M, FRoundBits(s, M, E, sticky, NDigits(M, Bin)))

FNeg(a) == IF a.m = <<>> THEN a ELSE [a EXCEPT !.s = 0 - a.s]

FMul(a, b) ==
  IF a.m = <<>> \/ b.m = <<>> THEN FZero
  ELSE FRound(a.s * b.s, BMul(a.m, b.m, Bin), a.e + b.e, FALSE)

\* the sum of sa * Ma and sb * Mb, c comparing Ma with Mb: its sign and its
\* magnitude
SumSign(sa, sb, c) == IF sa = sb \/ c >= 0 THEN sa ELSE sb
SumMagnitude(sa, Ma, sb, Mb, c, R) ==
  IF sa = sb THEN BAdd(Ma, Mb, R)
  ELSE BSub(IF c >= 0 THEN Ma ELSE Mb, IF c >= 0 THEN Mb ELSE Ma, R)

FAddCompared(sa, Ma, sb, Mb, c, e) ==
  FRound(SumSign(sa, sb, c), SumMagnitude(sa, Ma, sb, Mb, c, Bin), e, FALSE)

FAddAligned(sa, Ma, sb, Mb, e) ==
  After(Ma, After(Mb, FAddCompared(sa, Ma, sb, Mb, BCmp(Ma, Mb), e)))

FAdd(a, b) ==
  IF a.m = <<>> THEN b
  ELSE IF b.m = <<>> THEN a
  ELSE FAddAligned(a.s, BMulPow(a.m, a.e - Min(a.e, b.e), Bin),
                   b.s, BMulPow(b.m, b.e - Min(a.e, b.e), Bin), Min(a.e, b.e))

FSub(a, b) == FAdd(a, FNeg(b))

\* true division of two ints, n / d, correctly rounded (d # 0, |d| < 4096)
DivGuardBits == 72

FQuotient(s, qr) == After(qr, FRound(s, qr.q, 0 - DivGuardBits, qr.r # 0))

FDivInt(n, d) ==
  IF n = 0 THEN FZero
  ELSE FQuotient(Sign(n) * Sign(d),
         BDivSmall(BMulPow(NatToBig(Abs(n), Bin), DivGuardBits, Bin), Abs(d), Bin))

\* int -> float conversion of a mixed int/float operation
FFromInt(n) == FDivInt(n, 1)

\* int(x): truncation toward zero
FTrunc(a) ==
  IF a.m = <<>> THEN 0
  ELSE IF a.e >= 0 THEN a.s * BigToNat(BMulPow(a.m, a.e, Bin), Bin)
  ELSE a.s * BigToNat(BDivPow(a.m, 0 - a.e, Bin), Bin)

(***************************************************************************)
(* decimal.Decimal under the default context: [s, c, e] with value         *)
(* s * c * 10^e, c a natural in base 10^4 that is not a multiple of 10     *)
(* (trailing zeros do not change the value, and no operation of the        *)
(* program depends on them).  Every arithmetic result is rounded to        *)
(* DecimalPrec significant digits, ties to even.                           *)
(***************************************************************************)
DecimalPrec == 28

DZero == [s |-> 1, c |-> <<>>, e |-> 0]

DStrip(s, C, E, z) == [s |-> s, c |-> BDivPow(C, z, Dec), e |-> E + z]
DNorm(s, C, E) == IF C = <<>> THEN DZero ELSE After(C, DStrip(s, C, E, LowZeros(C, Dec)))

DRoundDigits(s, C, E, sticky, nd) ==
  IF nd > DecimalPrec
  THEN DNorm(s, RoundHalfEven(C, nd - DecimalPrec, sticky, Dec), E + (nd - DecimalPrec))
  ELSE DNorm(s, C, E)

\* s * (C + eps) * 10^E rounded to the context precision
DRound(s, C, E, sticky) == After(C, DRoundDigits(s, C, E, sticky, NDigits(C, Dec)))

DFromInt(n) == DNorm(Sign(n), NatToBig(Abs(n), Dec), 0)

DNeg(a) == IF a.c = <<>> THEN a ELSE [a EXCEPT !.s = 0 - a.s]

DMul(a, b) ==
  IF a.c = <<>> \/ b.c = <<>> THEN DZero
  ELSE DRound(a.s * b.s, BMul(a.c, b.c, Dec), a.e + b.e, FALSE)

DAddCompared(sa, Ca, sb, Cb, c, e) ==
  DRound(SumSign(sa, sb, c), SumMagnitude(sa, Ca, sb, Cb, c, Dec), e, FALSE)

DAddAligned(sa, Ca, sb, Cb, e) ==
  After(Ca, After(Cb, DAddCompared(sa, Ca, sb, Cb, BCmp(Ca, Cb), e)))

DAdd(a, b) ==
  DAddAligned(a.s, BMulPow(a.c, a.e - Min(a.e, b.e), Dec),
              b.s, BMulPow(b.c, b.e - Min(a.e, b.e), Dec), Min(a.e, b.e))

DSub(a, b) == DAdd(a, DNeg(b))

\* a > b (comparisons are exact: the sign of the difference)
Positive(d) == d.c # <<>> /\ d.s = 1
DGreater(a, b) == Positive(DSub(a, b))

\* Decimal.sqrt(): the square root correctly rounded, ties to even.  The
\* coefficient is given an even exponent and enough digits for the root to
\* have more than DecimalPrec of them.
DSqrtRoot(r, E) == After(r, DRound(1, r.root, E, ~r.exact))

DSqrtScaled(C0, E0, j) == DSqrtRoot(ISqrt(BMulPow(C0, 2 * j, Dec), Dec), (E0 \div 2) - j)

DSqrtDigits(C0, E0, nd) ==
  DSqrtScaled(C0, E0, IF nd >= 2 * DecimalPrec + 1 THEN 0
                      ELSE (2 * DecimalPrec + 1 - nd + 1) \div 2)

DSqrtEven(C0, E0) == After(C0, DSqrtDigits(C0, E0, NDigits(C0, Dec)))

DSqrt(a) ==
  IF a.c = <<>> THEN DZero
  ELSE DSqrtEven(IF a.e % 2 # 0 THEN BMulSmall(a.c, 10, Dec) ELSE a.c,
                 IF a.e % 2 # 0 THEN a.e - 1 ELSE a.e)

(***************************************************************************)
(* Decimal(str(x)) for a float x: str gives the shortest decimal string    *)
(* that reads back as x (the one nearest to x among the shortest), and     *)
(* Decimal reads that string exactly.  All quantities are naturals in      *)
(* units of 10^(x.e - 2) when x.e < 0, as for every float below 2^52, and  *)
(* in units of 10^(-2) otherwise.                                          *)
(***************************************************************************)
ReprMaxDigits == 17

BinToDecAdd(up, limb) ==
  After(up, BAdd(BMulSmall(up, Bin.B, Dec), NatToBig(limb, Dec), Dec))

RECURSIVE BinToDec(_)
BinToDec(m) ==
  IF m = <<>> THEN <<>> ELSE BinToDecAdd(BinToDec(SubSeq(m, 2, Len(m))), m[1])

Pow5Odd(sq, odd) == After(sq, IF odd = 1 THEN BMulSmall(sq, 5, Dec) ELSE sq)
Pow5Half(h, odd) == After(h, Pow5Odd(BMul(h, h, Dec), odd))

RECURSIVE Pow5(_)
Pow5(n) == IF n = 0 THEN <<1>> ELSE Pow5Half(Pow5(n \div 2), n % 2)

\* x reads back from a number at distance d from it when d is below the
\* half gap h to the neighbouring float (c compares d with h), or equal to
\* it when the significand of x is even
Within(c, incl) == c < 0 \/ (incl /\ c = 0)

\* the number nearest to V among those with n significant digits that read
\* back as x, or <<>> when there is none: lo and hi are the numbers of n
\* digits around V, and when both read back and V is half way between them
\* (c = 0) it is the one whose last digit is even (odd says that the last
\* digit of lo is odd)
CandidatePick(lo, hi, clo, chi, c, odd, incl) ==
  IF Within(clo, incl) /\ (~Within(chi, incl) \/ c < 0 \/ (c = 0 /\ ~odd)) THEN lo
  ELSE IF Within(chi, incl) THEN hi
  ELSE <<>>

CandidateDist(lo, hi, dlo, dhi, odd, hup, hdn, incl) ==
  After(dlo, After(dhi,
    CandidatePick(lo, hi, BCmp(dlo, hdn), BCmp(dhi, hup), BCmp(dlo, dhi), odd, incl)))

CandidateHi(V, lo, hi, odd, hup, hdn, incl) ==
  After(hi, CandidateDist(lo, hi, BSub(V, lo, Dec), BSub(hi, V, Dec), odd, hup, hdn, incl))

CandidateLo(V, lo, drop, hup, hdn, incl) ==
  After(lo, CandidateHi(V, lo, BAdd(lo, BPow(drop, Dec), Dec),
                        IsOdd(BDivPow(lo, drop, Dec)), hup, hdn, incl))

Candidate(V, nd, hup, hdn, incl, n) ==
  IF nd - n <= 0 THEN V
  ELSE CandidateLo(V, BMulPow(BDivPow(V, nd - n, Dec), nd - n, Dec), nd - n, hup, hdn, incl)

ShortestOf(candidates) ==
  candidates[SetMin({n \in 1..ReprMaxDigits : candidates[n] # <<>>})]

Shortest(V, nd, hup, hdn, incl) ==
  ShortestOf(Tuple([n \in 1..ReprMaxDigits |-> Candidate(V, nd, hup, hdn, incl, n)]))

\* V is x, hup and hdn are half the gaps to the floats above and below x
DecimalNear(x, V, hup, hdn) ==
  After(V, After(hup, After(hdn,
    DNorm(x.s, Shortest(V, NDigits(V, Dec), hup, hdn, ~IsOdd(x.m)), Min(x.e, 0) - 2))))

\* P = 5^(-x.e) when x.e < 0 and 2^x.e otherwise, so that 2^x.e = P * 100 units
DecimalAtScale(x, P) ==
  After(P, DecimalNear(x, BMulSmall(BMul(BinToDec(x.m), P, Dec), 100, Dec),
                       BMulSmall(P, 50, Dec),
                       BMulSmall(P, IF x.m = BPow(FloatBits - 1, Bin) THEN 25 ELSE 50, Dec)))

DecimalOfFloat(x) ==
  IF x.m = <<>> THEN DZero
  ELSE DecimalAtScale(x, IF x.e < 0 THEN Pow5(0 - x.e) ELSE BinToDec(BPow(x.e, Bin)))

(***************************************************************************)
(* Values of the program.  A number is a float record (field m) or a       *)
(* Decimal record (field c); Python ints that meet Decimals are converted  *)
(* exactly and are modelled as Decimals.  A point is a pair <<re, im>>.    *)
(* A call either returns, [ret |-> v], or raises, [exc |-> name].          *)
(***************************************************************************)
IsFloat(x) == "m" \in DOMAIN x

Return(v) == [ret |-> v]
Raise(e) == [exc |-> e]
Raised(r) == "exc" \in DOMAIN r

\* the float and the Decimal written n/10 in decimal notation (-2.0, 0.1, ...)
FloatOfTenths(n) == FDivInt(n, 10)
DecimalOfTenths(n) == DNorm(Sign(n), NatToBig(Abs(n), Dec), 0 - 1)

(***************************************************************************)
(* Complex arithmetic (fractals.py lines 22-33).  Decimal + float raises   *)
(* TypeError, which is how a parameter given as floats makes a call fail.  *)
(***************************************************************************)
add(a, b) ==
  IF IsFloat(b[1]) \/ IsFloat(b[2]) THEN Raise("TypeError")
  ELSE Return(<<DAdd(a[1], b[1]), DAdd(a[2], b[2])>>)

\* multiply with the sign of the product of the imaginary parts lost
MultiplyWrongSign(a, b) ==
  <<DAdd(DMul(a[1], b[1]), DMul(a[2], b[2])), DAdd(DMul(a[1], b[2]), DMul(a[2], b[1]))>>

multiply(a, b) ==
  <<DSub(DMul(a[1], b[1]), DMul(a[2], b[2])), DAdd(DMul(a[1], b[2]), DMul(a[2], b[1]))>>

absolute_value(a) == DSqrt(DAdd(DMul(a[1], a[1]), DMul(a[2], a[2])))

compute_iterate(z, c) == add(multiply(z, z), c)

(***************************************************************************)
(* is_point_contained (lines 41-55): the loop from the given iteration on. *)
(***************************************************************************)
RECURSIVE IterateFrom(_, _, _, _, _)
\* lines 51-53: the new iterated_point is tested, and the loop goes on
TestIterate(iterated_point, iterate_parameter, iteration, iterations, boundary) ==
  IF Raised(iterated_point) THEN iterated_point
  ELSE IF DGreater(absolute_value(iterated_point.ret), DFromInt(boundary))
       THEN Return(iteration + 1)
       ELSE IterateFrom(iterated_point.ret, iterate_parameter, iteration + 1,
                        iterations, boundary)

\* the loop of is_point_contained running one iteration too many
IterateOnceMore(iterated_point, iterate_parameter, iteration, iterations, boundary) ==
  IF iteration > iterations THEN Return(0 - 1)
  ELSE TestIterate(compute_iterate(iterated_point, iterate_parameter), iterate_parameter,
                   iteration, iterations, boundary)

\* lines 47-55: the loop from the given iteration on
IterateFrom(iterated_point, iterate_parameter, iteration, iterations, boundary) ==
  IF iteration >= iterations THEN Return(0 - 1)
  ELSE TestIterate(compute_iterate(iterated_point, iterate_parameter), iterate_parameter,
                   iteration, iterations, boundary)

\* is_point_contained without the test of the start point
ClassifyWithoutStartTest(point, iterate_parameter, iterations, boundary) ==
  IterateFrom(point, iterate_parameter, 0, iterations, boundary)

is_point_contained(point, iterate_parameter, iterations, boundary) ==
  IF DGreater(absolute_value(point), DFromInt(boundary)) THEN Return(0)
  ELSE IterateFrom(point, iterate_parameter, 0, iterations, boundary)

(***************************************************************************)
(* map_pixel_to_point (lines 61-65): float arithmetic, then                *)
(* Decimal(str(...)).  The viewport bounds are floats.  pixel_x / width    *)
(* and pixel_y / height raise ZeroDivisionError when the divisor is 0.     *)
(***************************************************************************)
map_pixel_to_point(pixel_x, pixel_y, width, height, min_x, max_x, min_y, max_y) ==
  IF width = 0 \/ height = 0 THEN Raise("ZeroDivisionError")
  ELSE Return(<<DecimalOfFloat(
                  FAdd(FMul(FDivInt(pixel_x, width), FSub(max_x, min_x)), min_x)),
                DecimalOfFloat(
                  FAdd(FMul(FSub(FFromInt(1), FDivInt(pixel_y, height)),
                            FSub(max_y, min_y)), min_y))>>)

(***************************************************************************)
(* grayscale (lines 75-79): int(iterations / max_iterations * 255) in      *)
(* float arithmetic; the division raises when max_iterations is 0.         *)
(***************************************************************************)
\* grayscale scaling to 256 levels
GrayscaleTo256(iterations, max_iterations) ==
  IF iterations = 0 - 1 THEN Return(255)
  ELSE IF max_iterations = 0 THEN Raise("ZeroDivisionError")
  ELSE Return(FTrunc(FMul(FDivInt(iterations, max_iterations), FFromInt(256))))

grayscale(iterations, max_iterations) ==
  IF iterations = 0 - 1 THEN Return(255)
  ELSE IF max_iterations = 0 THEN Raise("ZeroDivisionError")
  ELSE Return(FTrunc(FMul(FDivInt(iterations, max_iterations), FFromInt(255))))

grayscale_render_functions == <<"grayscale", "grayscale", "grayscale">>

\* a call of one of the colour rendering functions
Render(function, cell, max_iterations) ==
  CASE function = "grayscale" -> grayscale(cell, max_iterations)

(***************************************************************************)
(* Text: str() of a natural number, "{:05}".format(), " ".join().          *)
(***************************************************************************)
DigitChar == <<"0", "1", "2", "3", "4", "5", "6", "7", "8", "9">>

RECURSIVE str(_)
str(n) == IF n < 10 THEN DigitChar[n + 1] ELSE str(n \div 10) \o DigitChar[(n % 10) + 1]

RECURSIVE ZeroPad(_, _)
ZeroPad(text, width) == IF Len(text) >= width THEN text ELSE ZeroPad("0" \o text, width)

RECURSIVE join(_, _)
join(separator, texts) ==
  IF texts = <<>> THEN ""
  ELSE IF Len(texts) = 1 THEN texts[1]
  ELSE texts[1] \o separator \o join(separator, Tail(texts))

(***************************************************************************)
(* render_ppm (lines 89-107).  The file is opened, the header is written,  *)
(* then every row is converted to text and written, followed by a newline *)
(* of its own; Writes is the sequence of the write() calls in order.  A    *)
(* call of a colour function that raises ends the sequence before the row  *)
(* it belongs to.                                                          *)
(***************************************************************************)
CellTextOf(levels) ==
  IF \E k \in 1..3 : Raised(levels[k])
  THEN levels[SetMin({k \in 1..3 : Raised(levels[k])})]
  ELSE Return(str(levels[1].ret) \o " " \o str(levels[2].ret) \o " " \o str(levels[3].ret))

\* the red, green and blue levels of a cell, in this order
CellText(cell, render_functions, max_iterations) ==
  CellTextOf(Tuple([k \in 1..3 |-> Render(render_functions[k], cell, max_iterations)]))

\* the texts of the cells joined without the separating space
RowTextUnseparated(cells) ==
  IF \E i \in 1..Len(cells) : Raised(cells[i])
  THEN cells[SetMin({i \in 1..Len(cells) : Raised(cells[i])})]
  ELSE Return(join("", [i \in 1..Len(cells) |-> cells[i].ret]))

RowTextOf(cells) ==
  IF \E i \in 1..Len(cells) : Raised(cells[i])
  THEN cells[SetMin({i \in 1..Len(cells) : Raised(cells[i])})]
  ELSE Return(join(" ", [i \in 1..Len(cells) |-> cells[i].ret]))

RowText(row, render_functions, max_iterations) ==
  RowTextOf(Tuple([i \in 1..Len(row) |-> CellText(row[i], render_functions, max_iterations)]))

\* the writes for a row and the rows after it, and the exception that ends
\* them, if any
RowWritesOf(row_text, rest) ==
  IF Raised(row_text) THEN [writes |-> <<>>, exc |-> row_text.exc]
  ELSE [writes |-> <<row_text.ret, "\n">> \o rest.writes, exc |-> rest.exc]

RECURSIVE RowWrites(_, _, _, _)
RowWrites(pixel_data, k, render_functions, max_iterations) ==
  IF k > Len(pixel_data) THEN [writes |-> <<>>, exc |-> ""]
  ELSE RowWritesOf(RowText(pixel_data[k], render_functions, max_iterations),
                   RowWrites(pixel_data, k + 1, render_functions, max_iterations))

RECURSIVE Concat(_)
Concat(texts) == IF texts = <<>> THEN "" ELSE texts[1] \o Concat(Tail(texts))

\* the file after the header and the rows' writes, the fail-th write failing
Written(header, rows, fail) ==
  IF fail >= 1 /\ fail <= 1 + Len(rows.writes)
  THEN [opened |-> TRUE, content |-> Concat(SubSeq(<<header>> \o rows.writes, 1, fail - 1)),
        exc |-> "OSError"]
  ELSE [opened |-> TRUE, content |-> Concat(<<header>> \o rows.writes), exc |-> rows.exc]

\* render_ppm as the outcome of a call: whether the file was opened, what it
\* holds afterwards and the exception that ended the call ("" when it
\* returned).  fail says where the environment makes the I/O fail: -1 never,
\* 0 in open(), k >= 1 in the k-th write().
render_ppm(pixel_data, render_functions, max_iterations, fail) ==
  IF pixel_data = <<>> THEN [opened |-> FALSE, content |-> "", exc |-> "IndexError"]
  ELSE IF fail = 0 THEN [opened |-> FALSE, content |-> "", exc |-> "OSError"]
  ELSE Written("P3\n" \o str(Len(pixel_data[1])) \o " " \o str(Len(pixel_data)) \o "\n255\n",
               RowWrites(pixel_data, 1, render_functions, max_iterations), fail)

\* Filename without the zero padding
FilenameUnpadded(prefix, fractal_number) ==
  prefix \o str(fractal_number) \o ".ppm"

\* the name of the file of a fractal (line 116)
Filename(prefix, fractal_number) ==
  prefix \o ZeroPad(str(fractal_number), 5) \o ".ppm"

(***************************************************************************)
(* generate_parameter_circle_list (lines 161-169).  math.cos and math.sin  *)
(* are library functions; their values are tabulated for the two angles    *)
(* the model reaches, 0.0 and the float nearest to pi.                     *)
(***************************************************************************)
Pi == [s |-> 1, m |-> <<3352, 1090, 2900, 543, 25>>, e |-> 0 - 51]
SinPi == [s |-> 1, m |-> <<3079, 325, 1587, 2658, 17>>, e |-> 0 - 105]
FOne == [s |-> 1, m |-> <<0, 0, 0, 0, 16>>, e |-> 0 - 52]

cos(angle) == CASE angle = FZero -> FOne [] angle = Pi -> FNeg(FOne)
sin(angle) == CASE angle = FZero -> FZero [] angle = Pi -> SinPi

\* lines 165-166
Parameter(radius, angle) ==
  <<DecimalOfFloat(FMul(radius, cos(angle))), DecimalOfFloat(FMul(radius, sin(angle)))>>

RECURSIVE ParametersFrom(_, _, _)
ParametersFrom(radius, parameter_count, i) ==
  IF i >= parameter_count THEN <<>>
  ELSE <<Parameter(radius, FMul(FMul(FDivInt(i, parameter_count), FFromInt(2)), Pi))>>
       \o ParametersFrom(radius, parameter_count, i + 1)

generate_parameter_circle_list(radius, parameter_count) ==
  ParametersFrom(radius, parameter_count, 0)

(***************************************************************************)
(* The program (lines 172-174): render_ppm_batch(prefix, draw_batch(...,   *)
(* parameters, iterations, boundary), grayscale_render_functions,          *)
(* iterations), for a configuration cfg in place of the sample's literal   *)
(* arguments.  Viewport bounds and parameter components are kept in tenths *)
(* and converted where the code uses them.                                 *)
(***************************************************************************)
MaxWidth == 2
MaxHeight == 2
MaxIterations == 3

filename_prefix == "gifsource"

Config(w, h, viewport, source, iterations, boundary) ==
  [width |-> w, height |-> h,
   min_x |-> viewport[1], max_x |-> viewport[2],
   min_y |-> viewport[3], max_y |-> viewport[4],
   source |-> source, iterations |-> iterations, boundary |-> boundary]

\* where the parameter list comes from: a literal list of parameters, each
\* <<type, re, im>> with the components in tenths, or the circle generator
List(parameters) == [kind |-> "list", list |-> parameters, radius |-> 0, parameter_count |-> 0]
Circle(radius, parameter_count) ==
  [kind |-> "circle", list |-> <<>>, radius |-> radius, parameter_count |-> parameter_count]

Component(type, tenths) ==
  IF type = "float" THEN FloatOfTenths(tenths) ELSE DecimalOfTenths(tenths)

ParameterList(source) ==
  IF source.kind = "circle"
  THEN generate_parameter_circle_list(FloatOfTenths(source.radius), source.parameter_count)
  ELSE [i \in 1..Len(source.list) |->
          <<Component(source.list[i][1], source.list[i][2]),
            Component(source.list[i][1], source.list[i][3])>>]

Square == <<0 - 20, 20, 0 - 20, 20>>
Offset == <<0 - 1, 2, 0 - 1, 2>>
Wide == <<0 - 20, 20, 0 - 10, 10>>
Inner == <<0 - 15, 15, 0 - 15, 15>>
Origin == <<"Decimal", 0, 0>>
Dendrite == <<"Decimal", 0 - 8, 2>>

\* configurations the specification calls valid
ValidConfigs ==
  { Config(w, h, viewport, List(<<Dendrite>>), MaxIterations, 2) :
      w \in 1..MaxWidth, h \in 1..MaxHeight, viewport \in {Inner, Offset, Wide} }
  \cup
  { Config(MaxWidth, 1, Wide, source, iterations, 2) :
      source \in { List(<<>>), List(<<Origin>>), List(<<Origin, Dendrite>>),
                   List(<<Dendrite, <<"float", 5, 0>>, Origin>>),
                   Circle(8, 1), Circle(8, 2) },
      iterations \in {1, MaxIterations} }
  \cup
  { Config(3, 3, Square, List(<<Origin>>), 10, 2) }

\* configurations the specification calls invalid
InvalidConfigs ==
  { Config(w, 1, Square, List(<<Origin>>), 1, 2) : w \in {0 - 1, 0} }
  \cup { Config(2, h, Square, List(<<Origin>>), 1, 2) : h \in {0 - 1, 0} }
  \cup { Config(1, 1, viewport, List(<<Origin>>), 1, 2) :
           viewport \in { <<20, 0 - 20, 0 - 20, 20>>, <<0 - 20, 20, 20, 0 - 20>>,
                          <<0, 0, 0, 0>> } }
  \cup { Config(2, 1, Offset, List(<<Origin>>), iterations, 2) : iterations \in {0 - 1, 0} }
  \cup { Config(2, 1, Square, List(<<Origin>>), 1, boundary) : boundary \in {0 - 1, 0} }
  \cup { Config(1, 1, Square, Circle(8, parameter_count), 1, 2) :
           parameter_count \in {0 - 1, 0} }

Configs == ValidConfigs \cup InvalidConfigs

NoCall == [function |-> "none"]
Pending == [pending |-> TRUE]

VARIABLES
  cfg,             \* the arguments of the run
  pc,              \* where the program is
  parameters,      \* iterate_parameter_list
  index,           \* draw_batch's loop variable
  pixel_data_set,  \* draw_batch's result so far
  pixel_data,      \* draw's result so far
  y, x,            \* draw's loop variables
  row,             \* draw's current row
  fractal_number,  \* render_ppm_batch's loop variable
  opened,          \* the names passed to open(), in order
  files,           \* file name -> content
  exc,             \* the exception that ended the program, "" if none
  call,            \* a single call of one function, outside the program
  result           \* and what it returned

vars == <<cfg, pc, parameters, index, pixel_data_set, pixel_data, y, x, row,
          fractal_number, opened, files, exc, call, result>>

Idle ==
  /\ parameters = <<>>
  /\ index = 0
  /\ pixel_data_set = <<>>
  /\ pixel_data = <<>>
  /\ y = 0
  /\ x = 0
  /\ row = <<>>
  /\ fractal_number = 0
  /\ opened = <<>>
  /\ files = <<>>
  /\ exc = ""

Init ==
  /\ cfg \in Configs
  /\ pc = "main"
  /\ Idle
  /\ call = NoCall
  /\ result = Pending

\* line 173: the parameter list is built, draw_batch is entered (line 145)
Main ==
  /\ pc = "main"
  /\ parameters' = ParameterList(cfg.source)
  /\ pixel_data_set' = <<>>
  /\ index' = 0
  /\ pc' = "draw_batch"
  /\ UNCHANGED <<cfg, pixel_data, y, x, row, fractal_number, opened, files, exc, call, result>>

\* lines 147-153: the next parameter is taken and draw is entered (line 123)
DrawBatchFor ==
  /\ pc = "draw_batch"
  /\ index < Len(parameters)
  /\ pixel_data' = <<>>
  /\ y' = 0
  /\ pc' = "draw"
  /\ UNCHANGED <<cfg, parameters, index, pixel_data_set, x, row, fractal_number,
                 opened, files, exc, call, result>>

\* lines 125-126: the next row is started
DrawRowFor ==
  /\ pc = "draw"
  /\ y < cfg.height
  /\ row' = <<>>
  /\ x' = 0
  /\ pc' = "row"
  /\ UNCHANGED <<cfg, parameters, index, pixel_data_set, pixel_data, y, fractal_number,
                 opened, files, exc, call, result>>

\* line 134: the result is appended to the row; an exception ends the program
RowAppend(cell) ==
  IF Raised(cell)
  THEN /\ exc' = cell.exc
       /\ pc' = "raised"
       /\ UNCHANGED <<row, x>>
  ELSE /\ row' = Append(row, cell.ret)
       /\ x' = x + 1
       /\ UNCHANGED <<pc, exc>>

\* lines 130-135: the mapped point is classified; an exception of the mapping
\* goes on to the caller
ClassifyMapped(point, iterate_parameter, iterations, boundary) ==
  IF Raised(point) THEN point
  ELSE is_point_contained(point.ret, iterate_parameter, iterations, boundary)

\* DrawCell with the pixel's coordinates passed in the wrong order
DrawCellSwapped ==
  /\ pc = "row"
  /\ x < cfg.width
  /\ RowAppend(ClassifyMapped(
       map_pixel_to_point(y, x, cfg.width, cfg.height,
                          FloatOfTenths(cfg.min_x), FloatOfTenths(cfg.max_x),
                          FloatOfTenths(cfg.min_y), FloatOfTenths(cfg.max_y)),
       parameters[index + 1], cfg.iterations, cfg.boundary))
  /\ UNCHANGED <<cfg, parameters, index, pixel_data_set, pixel_data, y, fractal_number,
                 opened, files, call, result>>

\* lines 128-135: one pixel is mapped and classified
DrawCell ==
  /\ pc = "row"
  /\ x < cfg.width
  /\ RowAppend(ClassifyMapped(
       map_pixel_to_point(x, y, cfg.width, cfg.height,
                          FloatOfTenths(cfg.min_x), FloatOfTenths(cfg.max_x),
                          FloatOfTenths(cfg.min_y), FloatOfTenths(cfg.max_y)),
       parameters[index + 1], cfg.iterations, cfg.boundary))
  /\ UNCHANGED <<cfg, parameters, index, pixel_data_set, pixel_data, y, fractal_number,
                 opened, files, call, result>>

\* line 137: the row is complete
DrawRowEnd ==
  /\ pc = "row"
  /\ x >= cfg.width
  /\ pixel_data' = Append(pixel_data, row)
  /\ y' = y + 1
  /\ pc' = "draw"
  /\ UNCHANGED <<cfg, parameters, index, pixel_data_set, x, row, fractal_number,
                 opened, files, exc, call, result>>

\* line 138: draw returns its grid to draw_batch
DrawReturn ==
  /\ pc = "draw"
  /\ y >= cfg.height
  /\ pc' = "drawn"
  /\ UNCHANGED <<cfg, parameters, index, pixel_data_set, pixel_data, y, x, row,
                 fractal_number, opened, files, exc, call, result>>

\* line 156: the grid is added to the result list
DrawBatchAppend ==
  /\ pc = "drawn"
  /\ pixel_data_set' = Append(pixel_data_set, pixel_data)
  /\ index' = index + 1
  /\ pc' = "draw_batch"
  /\ UNCHANGED <<cfg, parameters, pixel_data, y, x, row, fractal_number, opened, files,
                 exc, call, result>>

\* line 157: draw_batch returns; render_ppm_batch is entered (line 112)
DrawBatchReturn ==
  /\ pc = "draw_batch"
  /\ index >= Len(parameters)
  /\ fractal_number' = 0
  /\ pc' = "render_ppm_batch"
  /\ UNCHANGED <<cfg, parameters, index, pixel_data_set, pixel_data, y, x, row,
                 opened, files, exc, call, result>>

\* Save going on to the next fractal after a failure
SaveAndContinue(filename, done) ==
  /\ opened' = IF done.opened THEN Append(opened, filename) ELSE opened
  /\ files' = IF done.opened
              THEN [name \in DOMAIN files \cup {filename} |->
                      IF name = filename THEN done.content ELSE files[name]]
              ELSE files
  /\ fractal_number' = fractal_number + 1
  /\ UNCHANGED <<pc, exc>>

\* the effect of a call of render_ppm on the files, and the loop going on
\* unless the call raised
Save(filename, done) ==
  /\ opened' = IF done.opened THEN Append(opened, filename) ELSE opened
  /\ files' = IF done.opened
              THEN [name \in DOMAIN files \cup {filename} |->
                      IF name = filename THEN done.content ELSE files[name]]
              ELSE files
  /\ IF done.exc # ""
     THEN /\ exc' = done.exc
          /\ pc' = "raised"
          /\ UNCHANGED fractal_number
     ELSE /\ fractal_number' = fractal_number + 1
          /\ UNCHANGED <<pc, exc>>

\* lines 112-117: one fractal is rendered into its file; the environment may
\* make open() or any write() fail
RenderBatchFor ==
  /\ pc = "render_ppm_batch"
  /\ fractal_number < Len(pixel_data_set)
  /\ \E fail \in (0 - 1)..(1 + 2 * Len(pixel_data_set[fractal_number + 1])) :
       Save(Filename(filename_prefix, fractal_number),
            render_ppm(pixel_data_set[fractal_number + 1], grayscale_render_functions,
                       cfg.iterations, fail))
  /\ UNCHANGED <<cfg, parameters, index, pixel_data_set, pixel_data, y, x, row,
                 call, result>>

\* render_ppm_batch returns and the program ends
RenderBatchReturn ==
  /\ pc = "render_ppm_batch"
  /\ fractal_number >= Len(pixel_data_set)
  /\ pc' = "done"
  /\ UNCHANGED <<cfg, parameters, index, pixel_data_set, pixel_data, y, x, row,
                 fractal_number, opened, files, exc, call, result>>

Next ==
  \/ Main
  \/ DrawBatchFor
  \/ DrawRowFor
  \/ DrawCell
  \/ DrawRowEnd
  \/ DrawReturn
  \/ DrawBatchAppend
  \/ DrawBatchReturn
  \/ RenderBatchFor
  \/ RenderBatchReturn

Spec == Init /\ [][Next]_vars

(***************************************************************************)
(* Single calls of the pure functions, outside the program: the arguments  *)
(* are drawn from bounded sets and the function is applied once.           *)
(***************************************************************************)
MaxGrayscaleCap == 12

ClassifyCalls ==
  { [function |-> "is_point_contained", re |-> re, im |-> im, parameter |-> parameter,
     iterations |-> iterations, boundary |-> boundary] :
      re \in {0 - 20, 0 - 5, 0, 10}, im \in {0 - 5, 0, 10},
      parameter \in {Origin, Dendrite, <<"Decimal", 3, 0 - 5>>},
      iterations \in 0..MaxIterations, boundary \in {1, 2} }

MapCalls ==
  { [function |-> "map_pixel_to_point", pixel_x |-> pixel_x, pixel_y |-> pixel_y,
     width |-> w, height |-> h, viewport |-> viewport] :
      pixel_x \in 0..MaxWidth, pixel_y \in 0..MaxHeight,
      w \in 0..MaxWidth, h \in 0..MaxHeight, viewport \in {Inner, Offset, Wide} }

GrayscaleCalls ==
  { [function |-> "grayscale", iterations |-> iterations,
     max_iterations |-> max_iterations] :
      iterations \in (0 - 1)..MaxGrayscaleCap, max_iterations \in 1..MaxGrayscaleCap }

Calls ==
  {c \in ClassifyCalls : TRUE}
  \cup {c \in MapCalls : c.pixel_x <= c.width /\ c.pixel_y <= c.height}
  \cup {c \in GrayscaleCalls : c.iterations <= c.max_iterations}

InitCall ==
  /\ cfg = Config(1, 1, Square, List(<<>>), 1, 2)
  /\ pc = "call"
  /\ Idle
  /\ call \in Calls
  /\ result = Pending

Unused == <<cfg, pc, parameters, index, pixel_data_set, pixel_data, y, x, row,
            fractal_number, opened, files, exc>>

\* is_point_contained(point, iterate_parameter, iterations, boundary)
CallClassify ==
  /\ call.function = "is_point_contained"
  /\ result = Pending
  /\ result' = is_point_contained(
                 <<DecimalOfTenths(call.re), DecimalOfTenths(call.im)>>,
                 <<Component(call.parameter[1], call.parameter[2]),
                   Component(call.parameter[1], call.parameter[3])>>,
                 call.iterations, call.boundary)
  /\ UNCHANGED <<Unused, call>>

\* map_pixel_to_point(pixel_x, pixel_y, width, height, min_x, max_x, min_y, max_y)
CallMap ==
  /\ call.function = "map_pixel_to_point"
  /\ result = Pending
  /\ result' = map_pixel_to_point(
                 call.pixel_x, call.pixel_y, call.width, call.height,
                 FloatOfTenths(call.viewport[1]), FloatOfTenths(call.viewport[2]),
                 FloatOfTenths(call.viewport[3]), FloatOfTenths(call.viewport[4]))
  /\ UNCHANGED <<Unused, call>>

\* grayscale(iterations, max_iterations)
CallGrayscale ==
  /\ call.function = "grayscale"
  /\ result = Pending
  /\ result' = grayscale(call.iterations, call.max_iterations)
  /\ UNCHANGED <<Unused, call>>

NextCall ==
  \/ CallClassify
  \/ CallMap
  \/ CallGrayscale

SpecCall == InitCall /\ [][NextCall]_vars

(***************************************************************************)
(* Properties                                                              *)
(***************************************************************************)
Returned(function) == call.function = function /\ result # Pending

CallPoint == <<DecimalOfTenths(call.re), DecimalOfTenths(call.im)>>
CallParameter == <<Component(call.parameter[1], call.parameter[2]),
                   Component(call.parameter[1], call.parameter[3])>>

\* the orbit z_0 = p, z_{n+1} = z_n * z_n + c
RECURSIVE Orbit(_, _, _)
Orbit(p, c, n) ==
  IF n = 0 THEN p
  ELSE LET z == Orbit(p, c, n - 1) IN After(z, add(multiply(z, z), c).ret)

Exceeds(p, c, n, boundary) == DGreater(absolute_value(Orbit(p, c, n)), DFromInt(boundary))

FirstExceeding(p, c, cap, boundary) ==
  LET beyond == {n \in 0..cap : Exceeds(p, c, n, boundary)}
  IN  IF beyond = {} THEN 0 - 1 ELSE SetMin(beyond)

\* C1: is_point_contained returns the index of the first of z_0..z_cap whose
\* magnitude is strictly greater than the boundary, and -1 exactly when none
\* of them is; with a cap of 0 the result is 0 or -1.
C1_FirstEscape ==
  Returned("is_point_contained") =>
    /\ result = Return(FirstExceeding(CallPoint, CallParameter, call.iterations,
                                      call.boundary))
    /\ call.iterations = 0 => result.ret \in {0, 0 - 1}

\* an orbit that stays within the boundary for two elements and then leaves it
C1_Witness ==
  /\ Returned("is_point_contained")
  /\ result = Return(2)
  /\ call.iterations >= 2

\* the cells the program holds: the row being filled, the rows of the grid
\* being filled, and the grids of the batch
Cells ==
  {row[i] : i \in 1..Len(row)}
  \cup UNION {{pixel_data[j][i] : i \in 1..Len(pixel_data[j])} : j \in 1..Len(pixel_data)}
  \cup UNION {UNION {{pixel_data_set[k][j][i] : i \in 1..Len(pixel_data_set[k][j])} :
                        j \in 1..Len(pixel_data_set[k])} : k \in 1..Len(pixel_data_set)}

\* C2: with a cap >= 0 and a boundary > 0, every value is_point_contained
\* returns into a row, and so every cell of every grid of draw and draw_batch,
\* is in 0..cap or is -1.
C2_Range ==
  (cfg.iterations >= 0 /\ cfg.boundary > 0) =>
    Cells \subseteq (0..cfg.iterations) \cup {0 - 1}

\* a finished batch holding a cell that escaped exactly at the cap and one
\* that never escaped
C2_Witness ==
  /\ pc = "done"
  /\ cfg.iterations >= 1 /\ cfg.boundary > 0
  /\ {cfg.iterations, 0 - 1} \subseteq Cells

Golden == Config(3, 3, Square, List(<<Origin>>), 10, 2)

GoldenDrawn == pc = "drawn" /\ cfg = Golden

\* C3 as stated: in the golden scenario draw classifies the centre pixel as
\* -1 and all four corner pixels as escaping at iteration 0.
C3_AllCornersEscape ==
  GoldenDrawn =>
    /\ pixel_data[2][2] = 0 - 1
    /\ pixel_data[1][1] = 0 /\ pixel_data[1][3] = 0
    /\ pixel_data[3][1] = 0 /\ pixel_data[3][3] = 0

\* C3 amended: in the golden scenario draw classifies the centre pixel as -1,
\* the corner pixels grid[0][0], grid[0][2] and grid[2][0] as escaping at
\* iteration 0, and the corner pixel grid[2][2] as -1.
C3_Golden ==
  GoldenDrawn =>
    /\ pixel_data[2][2] = 0 - 1
    /\ pixel_data[1][1] = 0 /\ pixel_data[1][3] = 0
    /\ pixel_data[3][1] = 0 /\ pixel_data[3][3] = 0 - 1

\* draw has returned the grid of the golden scenario
C3_Witness == GoldenDrawn /\ Len(pixel_data) = 3 /\ Len(pixel_data[3]) = 3

InvalidDraw ==
  \/ cfg.width <= 0 \/ cfg.height <= 0
  \/ cfg.min_x >= cfg.max_x \/ cfg.min_y >= cfg.max_y
  \/ cfg.boundary <= 0 \/ cfg.iterations <= 0

InvalidCount == cfg.source.kind = "circle" /\ cfg.source.parameter_count <= 0

\* C4: with an invalid configuration draw neither maps or classifies a pixel
\* nor returns a grid, and the circle generator called with a count <= 0
\* returns no list.
C4_Rejected ==
  /\ InvalidDraw => pc \notin {"row", "drawn"} /\ pixel_data_set = <<>>
  /\ InvalidCount => pc = "main"

Plane(tenths) == DecimalOfTenths(tenths)

\* C5: for width >= 1 and height >= 1 map_pixel_to_point sends pixel (0, 0)
\* to (min_x, max_y) and pixel (width, height) to (max_x, min_y); row 0 has
\* imaginary part max_y, column 0 has real part min_x, and the imaginary part
\* decreases strictly with pixel_y.
C5_Corners ==
  (Returned("map_pixel_to_point") /\ call.width >= 1 /\ call.height >= 1) =>
    /\ call.pixel_x = 0 => result.ret[1] = Plane(call.viewport[1])
    /\ call.pixel_y = 0 => result.ret[2] = Plane(call.viewport[4])
    /\ call.pixel_x = call.width => result.ret[1] = Plane(call.viewport[2])
    /\ call.pixel_y = call.height => result.ret[2] = Plane(call.viewport[3])
    /\ call.pixel_y >= 1 =>
         DGreater(map_pixel_to_point(call.pixel_x, call.pixel_y - 1, call.width,
                    call.height,
                    FloatOfTenths(call.viewport[1]), FloatOfTenths(call.viewport[2]),
                    FloatOfTenths(call.viewport[3]), FloatOfTenths(call.viewport[4])).ret[2],
                  result.ret[2])

\* the grid draw is to return for a parameter: classify(map(x, y)) at row y,
\* column x
Classified(parameter) ==
  [j \in 1..cfg.height |->
    [i \in 1..cfg.width |->
      is_point_contained(
        map_pixel_to_point(i - 1, j - 1, cfg.width, cfg.height,
                           FloatOfTenths(cfg.min_x), FloatOfTenths(cfg.max_x),
                           FloatOfTenths(cfg.min_y), FloatOfTenths(cfg.max_y)).ret,
        parameter, cfg.iterations, cfg.boundary).ret]]

\* C6: for width >= 1 and height >= 1 draw returns height rows of width
\* entries each, the entry at row y, column x being
\* classify(map(x, y, width, height, viewport), c, cap, boundary), a function
\* of (x, y) and the call's inputs alone.
C6_Grid ==
  (pc = "drawn" /\ cfg.width >= 1 /\ cfg.height >= 1) =>
    /\ Len(pixel_data) = cfg.height
    /\ \A j \in 1..Len(pixel_data) : Len(pixel_data[j]) = cfg.width
    /\ pixel_data = Classified(parameters[index + 1])

\* draw has returned a grid of more than one row and column whose cells differ
C6_Witness ==
  /\ pc = "drawn"
  /\ cfg.width >= 2 /\ cfg.height >= 2
  /\ Len(pixel_data) = cfg.height
  /\ pixel_data[1][2] # pixel_data[2][1]

\* C7: for a positive cap and r = -1 or 0 <= r <= cap, grayscale returns an
\* integer in 0..255: 255 for r = -1 and floor(r * 255 / cap) otherwise; all
\* three channels of the grayscale policy return it, so that a sentinel cell
\* is (255, 255, 255).
C7_Grayscale ==
  Returned("grayscale") =>
    /\ result.ret \in 0..255
    /\ call.iterations = 0 - 1 => result.ret = 255
    /\ call.iterations >= 0 =>
         result.ret = (call.iterations * 255) \div call.max_iterations
    /\ \A channel \in 1..3 :
         Render(grayscale_render_functions[channel], call.iterations,
                call.max_iterations) = result

\* grayscale has returned a level strictly between black and white that the
\* division does not hit exactly
C7_Witness ==
  /\ Returned("grayscale")
  /\ call.iterations >= 1 /\ call.iterations < call.max_iterations
  /\ (call.iterations * 255) % call.max_iterations # 0
  /\ result.ret \in 1..254

\* the name of the i-th artifact: the prefix, the index in five digits, the
\* extension
ArtifactName(i) ==
  "gifsource"
  \o (CASE i < 10 -> "0000" [] i < 100 -> "000" [] i < 1000 -> "00" [] i < 10000 -> "0"
        [] OTHER -> "")
  \o str(i) \o ".ppm"

\* the colour values of a row, three per cell, left to right
RECURSIVE Levels(_, _)
Levels(cells, max_iterations) ==
  IF cells = <<>> THEN <<>>
  ELSE <<str(Render(grayscale_render_functions[1], Head(cells), max_iterations).ret),
         str(Render(grayscale_render_functions[2], Head(cells), max_iterations).ret),
         str(Render(grayscale_render_functions[3], Head(cells), max_iterations).ret)>>
       \o Levels(Tail(cells), max_iterations)

\* the lines of the image of a grid, each ended by a newline
RECURSIVE Lines(_, _)
Lines(grid, max_iterations) ==
  IF grid = <<>> THEN ""
  ELSE join(" ", Levels(Head(grid), max_iterations)) \o "\n"
       \o Lines(Tail(grid), max_iterations)

Image(grid, max_iterations) ==
  "P3" \o "\n" \o str(Len(grid[1])) \o " " \o str(Len(grid)) \o "\n" \o "255" \o "\n"
  \o Lines(grid, max_iterations)

\* C8: draw_batch returns one grid per parameter, the i-th being draw of the
\* i-th parameter, and render_ppm_batch writes one artifact per grid in the
\* order 0, 1, ..., n-1, the artifact named prefix + five-digit i + extension
\* being rendered from the i-th grid; no index is skipped, repeated or out of
\* order.
C8_Order ==
  /\ opened = [i \in 1..Len(opened) |-> ArtifactName(i - 1)]
  /\ DOMAIN files = {opened[i] : i \in 1..Len(opened)}
  /\ pc = "done" =>
       /\ Len(pixel_data_set) = Len(parameters)
       /\ \A i \in 1..Len(parameters) : pixel_data_set[i] = Classified(parameters[i])
       /\ Len(opened) = Len(parameters)
       /\ \A i \in 1..Len(parameters) :
            files[ArtifactName(i - 1)] = Image(pixel_data_set[i], cfg.iterations)

\* a batch of two different grids has been drawn and rendered
C8_Witness ==
  /\ pc = "done"
  /\ Len(parameters) = 2
  /\ pixel_data_set[1] # pixel_data_set[2]
  /\ opened = <<"gifsource00000.ppm", "gifsource00001.ppm">>
  /\ files["gifsource00000.ppm"] # files["gifsource00001.ppm"]

Rectangular(grid) ==
  /\ Len(grid) >= 1
  /\ Len(grid[1]) >= 1
  /\ \A j \in 1..Len(grid) : Len(grid[j]) = Len(grid[1])

\* C9: for a grid of h >= 1 rows and w >= 1 columns render_ppm writes P3,
\* "w h" and 255 on three lines, then one line per row, top row first, of the
\* 3*w colour values of the row separated by single spaces, each cell giving
\* (red, green, blue); a 2x1 all-sentinel grid under the grayscale policy
\* gives exactly "P3\n2 1\n255\n255 255 255 255 255 255\n".
C9_Format ==
  \A i \in 1..fractal_number :
    Rectangular(pixel_data_set[i]) =>
      /\ files[opened[i]] = Image(pixel_data_set[i], cfg.iterations)
      /\ pixel_data_set[i] = <<<<0 - 1, 0 - 1>>>> =>
           files[opened[i]] = "P3\n2 1\n255\n255 255 255 255 255 255\n"

\* the 2x1 all-sentinel grid has been rendered
C9_Witness ==
  /\ fractal_number >= 1
  /\ pixel_data_set[1] = <<<<0 - 1, 0 - 1>>>>
  /\ files[opened[1]] = "P3\n2 1\n255\n255 255 255 255 255 255\n"

\* the artifacts written before the one being rendered hold their complete
\* images, and no artifact after it exists
EarlierIntact ==
  /\ Len(opened) <= fractal_number + 1
  /\ \A i \in 1..fractal_number :
       /\ i <= Len(opened)
       /\ opened[i] = ArtifactName(i - 1)
       /\ files[opened[i]] =
            render_ppm(pixel_data_set[i], grayscale_render_functions, cfg.iterations,
                       0 - 1).content

\* a failure is surfaced: the program has stopped with the exception, inside
\* draw_batch before the failing parameter's grid is added, or inside
\* render_ppm_batch at the failing artifact
Surfaced ==
  pc = "raised" =>
    /\ exc # ""
    /\ \/ /\ index < Len(parameters)
          /\ Len(pixel_data_set) = index
          /\ opened = <<>>
       \/ /\ index = Len(parameters)
          /\ fractal_number < Len(pixel_data_set)

\* C10: a failure while rendering artifact i ends render_ppm_batch with the
\* exception, no artifact with a greater index is opened or written and every
\* artifact with a smaller index keeps its complete content; a failure while
\* drawing parameter i ends draw_batch with no later parameter drawn.
C10_FailStop ==
  /\ [](EarlierIntact /\ Surfaced)
  /\ [][pc # "raised"]_vars

\* rendering the second artifact has failed after the first was written
C10_Witness ==
  /\ pc = "raised"
  /\ exc = "OSError"
  /\ fractal_number = 1
  /\ Len(opened) = 2
  /\ files[opened[2]] # Image(pixel_data_set[2], cfg.iterations)

====
